---- MODULE Spec2Model ----
(***************************************************************************)
(* Chaincode lifecycle: namespace definitions, per-organization approvals  *)
(* and commit-time agreement (core/chaincode/lifecycle/lifecycle.go).      *)
(*                                                                         *)
(* A state (the public world state, or one organization's implicit         *)
(* collection) is a function  namespace -> key -> entry , an entry being   *)
(* the metadata (Datatype) and the fields (Value) the serializer stores    *)
(* under that key.  The store itself is taken to be reliable: reads and    *)
(* writes of the state abstraction do not fail; errors that depend on the  *)
(* stored data (undecodable or wrongly typed entries) are modelled.        *)
(***************************************************************************)
EXTENDS Integers, Sequences, FiniteSets, TLC

VARIABLES publicState, orgStates, commits, approvals, nops, last,
          committed, install, pending

vars == <<publicState, orgStates, commits, approvals, nops, last,
          committed, install, pending>>

(***************************************************************************)
(* Bounds                                                                  *)
(***************************************************************************)
MaxSeq == 2
MaxOps == 3

(***************************************************************************)
(* Program constants                                                       *)
(***************************************************************************)
NamespacesName == "namespaces"
ChaincodeSourcesName == "chaincode-sources"
ChaincodeDefinitionType == "ChaincodeDefinition"
FriendlyChaincodeDefinitionType == "Chaincode"
ChaincodeParametersType == "ChaincodeParameters"
ChaincodeLocalPackageType == "ChaincodeLocalPackage"

(***************************************************************************)
(* Data model                                                              *)
(***************************************************************************)
ChaincodeLocalPackage(hash) == [Hash |-> hash]

ChaincodeDefinition(seq, p) ==
    [Sequence        |-> seq,
     EndorsementInfo |-> p.EndorsementInfo,
     ValidationInfo  |-> p.ValidationInfo,
     Collections     |-> p.Collections]

Parameters(cd) ==
    [EndorsementInfo |-> cd.EndorsementInfo,
     ValidationInfo  |-> cd.ValidationInfo,
     Collections     |-> cd.Collections]

NoErr == "nil"

Equal(cp, ocp) ==
    CASE cp.EndorsementInfo.Version # ocp.EndorsementInfo.Version -> "Version"
      [] cp.EndorsementInfo.EndorsementPlugin # ocp.EndorsementInfo.EndorsementPlugin -> "EndorsementPlugin"
      [] cp.ValidationInfo.ValidationPlugin # ocp.ValidationInfo.ValidationPlugin -> "ValidationPlugin"
      [] cp.ValidationInfo.ValidationParameter # ocp.ValidationInfo.ValidationParameter -> "ValidationParameter"
      [] cp.Collections # ocp.Collections -> "Collections"
      [] OTHER -> NoErr

(***************************************************************************)
(* Input domains                                                           *)
(***************************************************************************)
Names == {"mycc", "other"}
Orgs == {"Org1", "Org2"}
Seqs == -1..MaxSeq
SomeSeqs == 0..MaxSeq

MkParams(v, ep, ir, vp, vparam, coll) ==
    [EndorsementInfo |-> [Version |-> v, EndorsementPlugin |-> ep, InitRequired |-> ir],
     ValidationInfo  |-> [ValidationPlugin |-> vp, ValidationParameter |-> vparam],
     Collections     |-> coll]

P0       == MkParams("1.0", "builtin", FALSE, "builtin", <<1>>, <<>>)
PVersion == MkParams("1.1", "builtin", FALSE, "builtin", <<1>>, <<>>)
PEPlugin == MkParams("1.0", "custom",  FALSE, "builtin", <<1>>, <<>>)
PInit    == MkParams("1.0", "builtin", TRUE,  "builtin", <<1>>, <<>>)
PVPlugin == MkParams("1.0", "builtin", FALSE, "custom",  <<1>>, <<>>)
PVParam  == MkParams("1.0", "builtin", FALSE, "builtin", <<2>>, <<>>)
PColl    == MkParams("1.0", "builtin", FALSE, "builtin", <<1>>, <<"coll1">>)

AllParams == {P0, PVersion, PEPlugin, PInit, PVPlugin, PVParam, PColl}
FewParams == {P0, PVersion}

NilHash == [isNil |-> TRUE, bytes |-> <<>>]
Hash1   == [isNil |-> FALSE, bytes |-> <<1>>]
Hash2   == [isNil |-> FALSE, bytes |-> <<2>>]
Hashes  == {NilHash, Hash1, Hash2}
FewHashes == {NilHash, Hash1}

\* the definitions a caller may pass: every sequence number with every parameter choice
Definitions(seqs, params) == {ChaincodeDefinition(seq, p) : seq \in seqs, p \in params}

\* orgStates arguments of a commit: the lists of distinct organizations of a set
OrgLists(orgs) == {<<>>} \cup {<<o>> : o \in orgs}
                         \cup {p \in orgs \X orgs : p[1] # p[2]}

(***************************************************************************)
(* Keys and entries                                                        *)
(***************************************************************************)
PrivateName(name, seq) == name \o "#" \o ToString(seq)

PrivateKeys == {PrivateName(n, s) : n \in Names, s \in Seqs}

NoEntry == [Datatype |-> "", Value |-> <<>>]
\* an entry whose stored bytes do not decode
Undecodable == [Datatype |-> "?", Value |-> <<>>]
\* an entry of a datatype this package does not define
ForeignType == "TokenManagementSystem"
ForeignEntry == [Datatype |-> ForeignType, Value |-> [Owner |-> "x"]]

EmptyPublicState == [ns \in {NamespacesName} |-> [k \in Names |-> NoEntry]]
EmptyOrgState == [ns \in {NamespacesName, ChaincodeSourcesName} |-> [k \in PrivateKeys |-> NoEntry]]

(***************************************************************************)
(* Record codec (the serializer)                                           *)
(***************************************************************************)
Serialize(namespace, key, datatype, record, state) ==
    [state EXCEPT ![namespace][key] = [Datatype |-> datatype, Value |-> record]]

DeserializeMetadata(namespace, key, state) ==
    LET e == state[namespace][key]
    IN  IF e = Undecodable THEN [Datatype |-> "", ok |-> FALSE, err |-> "decode"]
        ELSE IF e = NoEntry THEN [Datatype |-> "", ok |-> FALSE, err |-> NoErr]
        ELSE [Datatype |-> e.Datatype, ok |-> TRUE, err |-> NoErr]

Deserialize(namespace, key, metadata, datatype, state) ==
    IF metadata.Datatype # datatype
    THEN [val |-> <<>>, err |-> "type"]
    ELSE [val |-> state[namespace][key].Value, err |-> NoErr]

DeserializeFieldAsInt64(namespace, key, field, state) ==
    LET e == state[namespace][key]
    IN  IF e = Undecodable THEN [val |-> 0, err |-> "decode"]
        ELSE IF e = NoEntry \/ field \notin DOMAIN e.Value THEN [val |-> 0, err |-> NoErr]
        ELSE [val |-> e.Value[field], err |-> NoErr]

IsSerialized(namespace, key, datatype, record, state) ==
    LET e == state[namespace][key]
    IN  IF e = Undecodable THEN [match |-> FALSE, err |-> "decode"]
        ELSE IF e = NoEntry THEN [match |-> FALSE, err |-> NoErr]
        ELSE IF e.Datatype # datatype THEN [match |-> FALSE, err |-> "type"]
        ELSE [match |-> e.Value = record, err |-> NoErr]

(***************************************************************************)
(* ExternalFunctions                                                       *)
(***************************************************************************)
NilAgreement == [isNil |-> TRUE, vals |-> <<>>]

\* mutant: the sequence check lets a skipped-ahead sequence through
CommitSkippingAhead(name, cd, pubSt, orgSts) ==
    LET currentSequence == DeserializeFieldAsInt64(NamespacesName, name, "Sequence", pubSt)
        privateName == PrivateName(name, cd.Sequence)
        agreement == [i \in 1..Len(orgSts) |->
                        LET r == IsSerialized(NamespacesName, privateName, ChaincodeParametersType,
                                              Parameters(cd), orgSts[i])
                        IN  r.err = NoErr /\ r.match]
    IN  IF cd.Sequence < currentSequence.val + 1
        THEN [agreement |-> NilAgreement, err |-> "requested sequence", state |-> pubSt]
        ELSE [agreement |-> [isNil |-> FALSE, vals |-> agreement],
              err |-> NoErr,
              state |-> Serialize(NamespacesName, name, ChaincodeDefinitionType, cd, pubSt)]

\* mutant: the definition is written only when every organization agrees
CommitWhenAgreed(name, cd, pubSt, orgSts) ==
    LET currentSequence == DeserializeFieldAsInt64(NamespacesName, name, "Sequence", pubSt)
        privateName == PrivateName(name, cd.Sequence)
        agreement == [i \in 1..Len(orgSts) |->
                        LET r == IsSerialized(NamespacesName, privateName, ChaincodeParametersType,
                                              Parameters(cd), orgSts[i])
                        IN  r.err = NoErr /\ r.match]
    IN  IF cd.Sequence # currentSequence.val + 1
        THEN [agreement |-> NilAgreement, err |-> "requested sequence", state |-> pubSt]
        ELSE [agreement |-> [isNil |-> FALSE, vals |-> agreement],
              err |-> NoErr,
              state |-> IF \A i \in 1..Len(orgSts) : agreement[i]
                        THEN Serialize(NamespacesName, name, ChaincodeDefinitionType, cd, pubSt)
                        ELSE pubSt]

\* mutant: the organizations' entries are read at the key of the current sequence
CommitReadingCurrentKey(name, cd, pubSt, orgSts) ==
    LET currentSequence == DeserializeFieldAsInt64(NamespacesName, name, "Sequence", pubSt)
        privateName == PrivateName(name, currentSequence.val)
        agreement == [i \in 1..Len(orgSts) |->
                        LET r == IsSerialized(NamespacesName, privateName, ChaincodeParametersType,
                                              Parameters(cd), orgSts[i])
                        IN  r.err = NoErr /\ r.match]
    IN  IF cd.Sequence # currentSequence.val + 1
        THEN [agreement |-> NilAgreement, err |-> "requested sequence", state |-> pubSt]
        ELSE [agreement |-> [isNil |-> FALSE, vals |-> agreement],
              err |-> NoErr,
              state |-> Serialize(NamespacesName, name, ChaincodeDefinitionType, cd, pubSt)]

CommitChaincodeDefinition(name, cd, pubSt, orgSts) ==
    LET currentSequence == DeserializeFieldAsInt64(NamespacesName, name, "Sequence", pubSt)
        privateName == PrivateName(name, cd.Sequence)
        agreement == [i \in 1..Len(orgSts) |->
                        LET r == IsSerialized(NamespacesName, privateName, ChaincodeParametersType,
                                              Parameters(cd), orgSts[i])
                        IN  r.err = NoErr /\ r.match]
    IN  IF currentSequence.err # NoErr
        THEN [agreement |-> NilAgreement, err |-> "could not get current sequence", state |-> pubSt]
        ELSE IF cd.Sequence # currentSequence.val + 1
        THEN [agreement |-> NilAgreement, err |-> "requested sequence", state |-> pubSt]
        ELSE [agreement |-> [isNil |-> FALSE, vals |-> agreement],
              err |-> NoErr,
              state |-> Serialize(NamespacesName, name, ChaincodeDefinitionType, cd, pubSt)]

\* mutant: no check against skipping ahead of the next sequence
ApproveSkippingAhead(name, cd, localPackageHash, pubSt, orgSt) ==
    LET currentSequence == DeserializeFieldAsInt64(NamespacesName, name, "Sequence", pubSt)
        requestedSequence == cd.Sequence
        metadata == DeserializeMetadata(NamespacesName, name, pubSt)
        definedChaincode == Deserialize(NamespacesName, name, metadata, ChaincodeDefinitionType, pubSt)
        privateName == PrivateName(name, requestedSequence)
        withParams == Serialize(NamespacesName, privateName, ChaincodeParametersType, Parameters(cd), orgSt)
        withPackage == IF localPackageHash.isNil
                       THEN withParams
                       ELSE Serialize(ChaincodeSourcesName, privateName, ChaincodeLocalPackageType,
                                      ChaincodeLocalPackage(localPackageHash.bytes), withParams)
        Reject(e) == [err |-> e, state |-> orgSt]
    IN  IF currentSequence.val = requestedSequence /\ requestedSequence = 0
        THEN Reject("requested sequence is 0")
        ELSE IF requestedSequence < currentSequence.val
        THEN Reject("currently defined sequence is larger")
        ELSE IF requestedSequence = currentSequence.val
                /\ Equal(Parameters(definedChaincode.val), Parameters(cd)) # NoErr
        THEN Reject("attempted to define the current sequence")
        ELSE [err |-> NoErr, state |-> withPackage]

\* mutant: no check of sequence 0, and the committed definition is looked up
\* only when there is one
ApproveZero(name, cd, localPackageHash, pubSt, orgSt) ==
    LET currentSequence == DeserializeFieldAsInt64(NamespacesName, name, "Sequence", pubSt)
        requestedSequence == cd.Sequence
        metadata == DeserializeMetadata(NamespacesName, name, pubSt)
        definedChaincode == Deserialize(NamespacesName, name, metadata, ChaincodeDefinitionType, pubSt)
        privateName == PrivateName(name, requestedSequence)
        withParams == Serialize(NamespacesName, privateName, ChaincodeParametersType, Parameters(cd), orgSt)
        withPackage == IF localPackageHash.isNil
                       THEN withParams
                       ELSE Serialize(ChaincodeSourcesName, privateName, ChaincodeLocalPackageType,
                                      ChaincodeLocalPackage(localPackageHash.bytes), withParams)
        Reject(e) == [err |-> e, state |-> orgSt]
    IN  IF requestedSequence < currentSequence.val
        THEN Reject("currently defined sequence is larger")
        ELSE IF requestedSequence > currentSequence.val + 1
        THEN Reject("requested sequence is larger than the next")
        ELSE IF requestedSequence = currentSequence.val /\ metadata.ok
                /\ definedChaincode.err # NoErr
        THEN Reject("could not deserialize namespace")
        ELSE IF requestedSequence = currentSequence.val /\ metadata.ok
                /\ Equal(Parameters(definedChaincode.val), Parameters(cd)) # NoErr
        THEN Reject("attempted to define the current sequence")
        ELSE [err |-> NoErr, state |-> withPackage]

\* mutant: a proposal for the next sequence is compared with the committed
\* definition too
ApproveComparingNext(name, cd, localPackageHash, pubSt, orgSt) ==
    LET currentSequence == DeserializeFieldAsInt64(NamespacesName, name, "Sequence", pubSt)
        requestedSequence == cd.Sequence
        metadata == DeserializeMetadata(NamespacesName, name, pubSt)
        definedChaincode == Deserialize(NamespacesName, name, metadata, ChaincodeDefinitionType, pubSt)
        privateName == PrivateName(name, requestedSequence)
        withParams == Serialize(NamespacesName, privateName, ChaincodeParametersType, Parameters(cd), orgSt)
        withPackage == IF localPackageHash.isNil
                       THEN withParams
                       ELSE Serialize(ChaincodeSourcesName, privateName, ChaincodeLocalPackageType,
                                      ChaincodeLocalPackage(localPackageHash.bytes), withParams)
        Reject(e) == [err |-> e, state |-> orgSt]
    IN  IF currentSequence.val = requestedSequence /\ requestedSequence = 0
        THEN Reject("requested sequence is 0")
        ELSE IF requestedSequence < currentSequence.val
        THEN Reject("currently defined sequence is larger")
        ELSE IF requestedSequence > currentSequence.val + 1
        THEN Reject("requested sequence is larger than the next")
        ELSE IF ~metadata.ok
        THEN Reject("missing metadata")
        ELSE IF Equal(Parameters(definedChaincode.val), Parameters(cd)) # NoErr
        THEN Reject("attempted to define the current sequence")
        ELSE [err |-> NoErr, state |-> withPackage]

\* mutant: an entry already stored at the key is kept
ApproveFirstWins(name, cd, localPackageHash, pubSt, orgSt) ==
    LET currentSequence == DeserializeFieldAsInt64(NamespacesName, name, "Sequence", pubSt)
        requestedSequence == cd.Sequence
        metadata == DeserializeMetadata(NamespacesName, name, pubSt)
        definedChaincode == Deserialize(NamespacesName, name, metadata, ChaincodeDefinitionType, pubSt)
        privateName == PrivateName(name, requestedSequence)
        withParams == IF DeserializeMetadata(NamespacesName, privateName, orgSt).ok
                      THEN orgSt
                      ELSE Serialize(NamespacesName, privateName, ChaincodeParametersType,
                                     Parameters(cd), orgSt)
        withPackage == IF localPackageHash.isNil
                       THEN withParams
                       ELSE Serialize(ChaincodeSourcesName, privateName, ChaincodeLocalPackageType,
                                      ChaincodeLocalPackage(localPackageHash.bytes), withParams)
        Reject(e) == [err |-> e, state |-> orgSt]
    IN  IF currentSequence.val = requestedSequence /\ requestedSequence = 0
        THEN Reject("requested sequence is 0")
        ELSE IF requestedSequence < currentSequence.val
        THEN Reject("currently defined sequence is larger")
        ELSE IF requestedSequence > currentSequence.val + 1
        THEN Reject("requested sequence is larger than the next")
        ELSE IF requestedSequence = currentSequence.val
                /\ Equal(Parameters(definedChaincode.val), Parameters(cd)) # NoErr
        THEN Reject("attempted to define the current sequence")
        ELSE [err |-> NoErr, state |-> withPackage]

\* mutant: the package record is written whether or not a hash was given
ApproveAlwaysWritingPackage(name, cd, localPackageHash, pubSt, orgSt) ==
    LET currentSequence == DeserializeFieldAsInt64(NamespacesName, name, "Sequence", pubSt)
        requestedSequence == cd.Sequence
        metadata == DeserializeMetadata(NamespacesName, name, pubSt)
        definedChaincode == Deserialize(NamespacesName, name, metadata, ChaincodeDefinitionType, pubSt)
        privateName == PrivateName(name, requestedSequence)
        withParams == Serialize(NamespacesName, privateName, ChaincodeParametersType, Parameters(cd), orgSt)
        withPackage == Serialize(ChaincodeSourcesName, privateName, ChaincodeLocalPackageType,
                                 ChaincodeLocalPackage(localPackageHash.bytes), withParams)
        Reject(e) == [err |-> e, state |-> orgSt]
    IN  IF currentSequence.val = requestedSequence /\ requestedSequence = 0
        THEN Reject("requested sequence is 0")
        ELSE IF requestedSequence < currentSequence.val
        THEN Reject("currently defined sequence is larger")
        ELSE IF requestedSequence > currentSequence.val + 1
        THEN Reject("requested sequence is larger than the next")
        ELSE IF requestedSequence = currentSequence.val
                /\ Equal(Parameters(definedChaincode.val), Parameters(cd)) # NoErr
        THEN Reject("attempted to define the current sequence")
        ELSE [err |-> NoErr, state |-> withPackage]

\* mutant: no check against a sequence lower than the current one
ApproveSuperseded(name, cd, localPackageHash, pubSt, orgSt) ==
    LET currentSequence == DeserializeFieldAsInt64(NamespacesName, name, "Sequence", pubSt)
        requestedSequence == cd.Sequence
        metadata == DeserializeMetadata(NamespacesName, name, pubSt)
        definedChaincode == Deserialize(NamespacesName, name, metadata, ChaincodeDefinitionType, pubSt)
        privateName == PrivateName(name, requestedSequence)
        withParams == Serialize(NamespacesName, privateName, ChaincodeParametersType, Parameters(cd), orgSt)
        withPackage == IF localPackageHash.isNil
                       THEN withParams
                       ELSE Serialize(ChaincodeSourcesName, privateName, ChaincodeLocalPackageType,
                                      ChaincodeLocalPackage(localPackageHash.bytes), withParams)
        Reject(e) == [err |-> e, state |-> orgSt]
    IN  IF currentSequence.err # NoErr THEN Reject("could not get current sequence")
        ELSE IF currentSequence.val = requestedSequence /\ requestedSequence = 0
        THEN Reject("requested sequence is 0")
        ELSE IF requestedSequence > currentSequence.val + 1
        THEN Reject("requested sequence is larger than the next")
        ELSE IF requestedSequence = currentSequence.val /\ metadata.err # NoErr
        THEN Reject("could not fetch metadata")
        ELSE IF requestedSequence = currentSequence.val /\ ~metadata.ok
        THEN Reject("missing metadata")
        ELSE IF requestedSequence = currentSequence.val /\ definedChaincode.err # NoErr
        THEN Reject("could not deserialize namespace")
        ELSE IF requestedSequence = currentSequence.val
                /\ Equal(Parameters(definedChaincode.val), Parameters(cd)) # NoErr
        THEN Reject("attempted to define the current sequence")
        ELSE [err |-> NoErr, state |-> withPackage]

\* mutant: an accepted approval removes the entry of the sequence before it
ApproveClearingPrevious(name, cd, localPackageHash, pubSt, orgSt) ==
    LET currentSequence == DeserializeFieldAsInt64(NamespacesName, name, "Sequence", pubSt)
        requestedSequence == cd.Sequence
        metadata == DeserializeMetadata(NamespacesName, name, pubSt)
        definedChaincode == Deserialize(NamespacesName, name, metadata, ChaincodeDefinitionType, pubSt)
        privateName == PrivateName(name, requestedSequence)
        withParams == Serialize(NamespacesName, privateName, ChaincodeParametersType, Parameters(cd), orgSt)
        withPackage == IF localPackageHash.isNil
                       THEN withParams
                       ELSE Serialize(ChaincodeSourcesName, privateName, ChaincodeLocalPackageType,
                                      ChaincodeLocalPackage(localPackageHash.bytes), withParams)
        Reject(e) == [err |-> e, state |-> orgSt]
    IN  IF currentSequence.err # NoErr THEN Reject("could not get current sequence")
        ELSE IF currentSequence.val = requestedSequence /\ requestedSequence = 0
        THEN Reject("requested sequence is 0")
        ELSE IF requestedSequence < currentSequence.val
        THEN Reject("currently defined sequence is larger")
        ELSE IF requestedSequence > currentSequence.val + 1
        THEN Reject("requested sequence is larger than the next")
        ELSE IF requestedSequence = currentSequence.val /\ metadata.err # NoErr
        THEN Reject("could not fetch metadata")
        ELSE IF requestedSequence = currentSequence.val /\ ~metadata.ok
        THEN Reject("missing metadata")
        ELSE IF requestedSequence = currentSequence.val /\ definedChaincode.err # NoErr
        THEN Reject("could not deserialize namespace")
        ELSE IF requestedSequence = currentSequence.val
                /\ Equal(Parameters(definedChaincode.val), Parameters(cd)) # NoErr
        THEN Reject("attempted to define the current sequence")
        ELSE [err |-> NoErr,
              state |-> [withPackage EXCEPT
                            ![NamespacesName][PrivateName(name, requestedSequence - 1)] =
                                [Datatype |-> "", Value |-> <<>>]]]

ApproveChaincodeDefinitionForOrg(name, cd, localPackageHash, pubSt, orgSt) ==
    LET currentSequence == DeserializeFieldAsInt64(NamespacesName, name, "Sequence", pubSt)
        requestedSequence == cd.Sequence
        metadata == DeserializeMetadata(NamespacesName, name, pubSt)
        definedChaincode == Deserialize(NamespacesName, name, metadata, ChaincodeDefinitionType, pubSt)
        privateName == PrivateName(name, requestedSequence)
        withParams == Serialize(NamespacesName, privateName, ChaincodeParametersType, Parameters(cd), orgSt)
        withPackage == IF localPackageHash.isNil
                       THEN withParams
                       ELSE Serialize(ChaincodeSourcesName, privateName, ChaincodeLocalPackageType,
                                      ChaincodeLocalPackage(localPackageHash.bytes), withParams)
        Reject(e) == [err |-> e, state |-> orgSt]
    IN  IF currentSequence.err # NoErr THEN Reject("could not get current sequence")
        ELSE IF currentSequence.val = requestedSequence /\ requestedSequence = 0
        THEN Reject("requested sequence is 0")
        ELSE IF requestedSequence < currentSequence.val
        THEN Reject("currently defined sequence is larger")
        ELSE IF requestedSequence > currentSequence.val + 1
        THEN Reject("requested sequence is larger than the next")
        ELSE IF requestedSequence = currentSequence.val /\ metadata.err # NoErr
        THEN Reject("could not fetch metadata")
        ELSE IF requestedSequence = currentSequence.val /\ ~metadata.ok
        THEN Reject("missing metadata")
        ELSE IF requestedSequence = currentSequence.val /\ definedChaincode.err # NoErr
        THEN Reject("could not deserialize namespace")
        ELSE IF requestedSequence = currentSequence.val
                /\ Equal(Parameters(definedChaincode.val), Parameters(cd)) # NoErr
        THEN Reject("attempted to define the current sequence")
        ELSE [err |-> NoErr, state |-> withPackage]

(***************************************************************************)
(* Queries                                                                 *)
(***************************************************************************)
NoDef == ChaincodeDefinition(0, MkParams("", "", FALSE, "", <<>>, <<>>))

\* the name of the lifecycle's own namespace
LifecycleNamespace == "_lifecycle"

\* the names a query may ask for
QueryNames == Names \cup {LifecycleNamespace}

\* all the metadata of a namespace, by key; fails when one does not decode
DeserializeAllMetadata(namespace, state) ==
    LET keys == {k \in DOMAIN state[namespace] : state[namespace][k] # NoEntry}
    IN  IF \E k \in keys : state[namespace][k] = Undecodable
        THEN [vals |-> <<>>, err |-> "decode"]
        ELSE [vals |-> [k \in keys |-> state[namespace][k].Datatype], err |-> NoErr]

\* mutant: no short cut for the lifecycle's own namespace
IfDefinedReadingLifecycle(chaincodeName, state) ==
    LET metadata == DeserializeMetadata(NamespacesName, chaincodeName, state)
        definedChaincode == Deserialize(NamespacesName, chaincodeName, metadata,
                                        ChaincodeDefinitionType, state)
        Fail(e) == [defined |-> FALSE, definition |-> [isNil |-> TRUE, val |-> NoDef], err |-> e]
    IN  IF metadata.err # NoErr THEN Fail("could not deserialize metadata")
        ELSE IF ~metadata.ok THEN Fail(NoErr)
        ELSE IF metadata.Datatype # ChaincodeDefinitionType THEN Fail("not a chaincode type")
        ELSE IF definedChaincode.err # NoErr THEN Fail("could not deserialize chaincode definition")
        ELSE [defined |-> TRUE,
              definition |-> [isNil |-> FALSE, val |-> definedChaincode.val],
              err |-> NoErr]

\* mutant: a namespace of another datatype counts as not defined
IfDefinedIgnoringType(chaincodeName, state) ==
    LET metadata == DeserializeMetadata(NamespacesName, chaincodeName, state)
        definedChaincode == Deserialize(NamespacesName, chaincodeName, metadata,
                                        ChaincodeDefinitionType, state)
        Fail(e) == [defined |-> FALSE, definition |-> [isNil |-> TRUE, val |-> NoDef], err |-> e]
    IN  IF chaincodeName = LifecycleNamespace
        THEN [defined |-> TRUE, definition |-> [isNil |-> FALSE, val |-> NoDef], err |-> NoErr]
        ELSE IF metadata.err # NoErr THEN Fail("could not deserialize metadata")
        ELSE IF ~metadata.ok THEN Fail(NoErr)
        ELSE IF metadata.Datatype # ChaincodeDefinitionType THEN Fail(NoErr)
        ELSE [defined |-> TRUE,
              definition |-> [isNil |-> FALSE, val |-> definedChaincode.val],
              err |-> NoErr]

ChaincodeDefinitionIfDefined(chaincodeName, state) ==
    LET metadata == DeserializeMetadata(NamespacesName, chaincodeName, state)
        definedChaincode == Deserialize(NamespacesName, chaincodeName, metadata,
                                        ChaincodeDefinitionType, state)
        Fail(e) == [defined |-> FALSE, definition |-> [isNil |-> TRUE, val |-> NoDef], err |-> e]
    IN  IF chaincodeName = LifecycleNamespace
        THEN [defined |-> TRUE,
              definition |-> [isNil |-> FALSE,
                              val |-> ChaincodeDefinition(0, MkParams("", "", FALSE, "", <<>>, <<>>))],
              err |-> NoErr]
        ELSE IF metadata.err # NoErr THEN Fail("could not deserialize metadata")
        ELSE IF ~metadata.ok THEN Fail(NoErr)
        ELSE IF metadata.Datatype # ChaincodeDefinitionType THEN Fail("not a chaincode type")
        ELSE IF definedChaincode.err # NoErr THEN Fail("could not deserialize chaincode definition")
        ELSE [defined |-> TRUE,
              definition |-> [isNil |-> FALSE, val |-> definedChaincode.val],
              err |-> NoErr]

\* mutant: an undefined namespace yields an empty definition and no error
QueryUndefinedAsEmpty(name, pubSt) ==
    LET metadata == DeserializeMetadata(NamespacesName, name, pubSt)
        definedChaincode == Deserialize(NamespacesName, name, metadata,
                                        ChaincodeDefinitionType, pubSt)
        Fail(e) == [definition |-> [isNil |-> TRUE, val |-> NoDef], err |-> e]
    IN  IF metadata.err # NoErr THEN Fail("could not fetch metadata")
        ELSE IF ~metadata.ok THEN [definition |-> [isNil |-> FALSE, val |-> NoDef], err |-> NoErr]
        ELSE IF definedChaincode.err # NoErr THEN Fail("could not deserialize namespace")
        ELSE [definition |-> [isNil |-> FALSE, val |-> definedChaincode.val], err |-> NoErr]

QueryChaincodeDefinition(name, pubSt) ==
    LET metadata == DeserializeMetadata(NamespacesName, name, pubSt)
        definedChaincode == Deserialize(NamespacesName, name, metadata,
                                        ChaincodeDefinitionType, pubSt)
        Fail(e) == [definition |-> [isNil |-> TRUE, val |-> NoDef], err |-> e]
    IN  IF metadata.err # NoErr THEN Fail("could not fetch metadata")
        ELSE IF ~metadata.ok THEN Fail("namespace is not defined")
        ELSE IF definedChaincode.err # NoErr THEN Fail("could not deserialize namespace")
        ELSE [definition |-> [isNil |-> FALSE, val |-> definedChaincode.val], err |-> NoErr]

\* mutant: an unrecognized datatype is an error
QueryNamespacesRejectingUnknown(pubSt) ==
    LET metadatas == DeserializeAllMetadata(NamespacesName, pubSt)
    IN  IF metadatas.err # NoErr \/ \E key \in DOMAIN metadatas.vals :
                                        metadatas.vals[key] # ChaincodeDefinitionType
        THEN [namespaces |-> [isNil |-> TRUE, vals |-> <<>>],
              err |-> "could not query namespace metadata"]
        ELSE [namespaces |-> [isNil |-> FALSE,
                              vals |-> [key \in DOMAIN metadatas.vals |->
                                           FriendlyChaincodeDefinitionType]],
              err |-> NoErr]

QueryNamespaceDefinitions(pubSt) ==
    LET metadatas == DeserializeAllMetadata(NamespacesName, pubSt)
    IN  IF metadatas.err # NoErr
        THEN [namespaces |-> [isNil |-> TRUE, vals |-> <<>>],
              err |-> "could not query namespace metadata"]
        ELSE [namespaces |-> [isNil |-> FALSE,
                              vals |-> [key \in DOMAIN metadatas.vals |->
                                           IF metadatas.vals[key] = ChaincodeDefinitionType
                                           THEN FriendlyChaincodeDefinitionType
                                           ELSE metadatas.vals[key]]],
              err |-> NoErr]

(***************************************************************************)
(* The calls, as actions.  last records the most recent call and its       *)
(* result; commits counts the successful commits of each namespace,        *)
(* committed holds the definition of the latest one and approvals lists,   *)
(* per organization and key, the parameters of the accepted approvals in   *)
(* order (all three are history variables).                                *)
(***************************************************************************)
\* a nil *ChaincodeDefinition and a nil map[string]string
NilDefinition == [isNil |-> TRUE, val |-> NoDef]
NilNamespaces == [isNil |-> TRUE, vals |-> <<>>]

NoCall == [op |-> "none", name |-> "", org |-> "", cd |-> NoDef, hash |-> NilHash,
           orgs |-> <<>>, agreement |-> NilAgreement, err |-> NoErr,
           defined |-> FALSE, definition |-> NilDefinition, namespaces |-> NilNamespaces,
           version |-> "", package |-> <<>>, read |-> 0]

\* the peer's chaincode store and install listener before any install: whether a
\* listener is registered, the packages saved, the notifications delivered and the
\* collaborators the most recent InstallChaincode called, in order
NoInstall == [listener |-> FALSE, saved |-> <<>>, notified |-> <<>>, trace |-> <<>>]

InitPeer(pub, org, listener) ==
    /\ publicState = pub
    /\ orgStates = org
    /\ commits = [n \in Names |-> 0]
    /\ approvals = [o \in Orgs |-> [k \in PrivateKeys |-> <<>>]]
    /\ nops = 0
    /\ last = NoCall
    /\ committed = [n \in Names |-> NilDefinition]
    /\ install = [NoInstall EXCEPT !.listener = listener]
    /\ pending = {}

InitWith(pub, org) == InitPeer(pub, org, FALSE)

Init == InitWith(EmptyPublicState, [o \in Orgs |-> EmptyOrgState])

Approve(name, org, cd, hash) ==
    LET r == ApproveChaincodeDefinitionForOrg(name, cd, hash, publicState, orgStates[org])
    IN  /\ nops < MaxOps
        /\ nops' = nops + 1
        /\ orgStates' = [orgStates EXCEPT ![org] = r.state]
        /\ approvals' = IF r.err = NoErr
                        THEN [approvals EXCEPT ![org][PrivateName(name, cd.Sequence)] =
                                                    Append(@, Parameters(cd))]
                        ELSE approvals
        /\ last' = [NoCall EXCEPT !.op = "approve", !.name = name, !.org = org, !.cd = cd,
                                  !.hash = hash, !.err = r.err]
        /\ UNCHANGED <<publicState, commits, committed, install, pending>>

Commit(name, cd, orgs) ==
    LET r == CommitChaincodeDefinition(name, cd, publicState,
                                       [i \in 1..Len(orgs) |-> orgStates[orgs[i]]])
    IN  /\ nops < MaxOps
        /\ nops' = nops + 1
        /\ publicState' = r.state
        /\ commits' = IF r.err = NoErr THEN [commits EXCEPT ![name] = @ + 1] ELSE commits
        /\ committed' = IF r.err = NoErr
                        THEN [committed EXCEPT ![name] = [isNil |-> FALSE, val |-> cd]]
                        ELSE committed
        /\ last' = [NoCall EXCEPT !.op = "commit", !.name = name, !.cd = cd, !.orgs = orgs,
                                  !.agreement = r.agreement, !.err = r.err]
        /\ UNCHANGED <<orgStates, approvals, install, pending>>

Next ==
    \/ \E name \in Names, org \in Orgs, cd \in Definitions(SomeSeqs, FewParams), hash \in FewHashes :
          Approve(name, org, cd, hash)
    \/ \E name \in Names, cd \in Definitions(SomeSeqs, FewParams), orgs \in OrgLists(Orgs) :
          Commit(name, cd, orgs)

Spec == Init /\ [][Next]_vars

\* One namespace, Org2 holding from the start an entry at mycc#1 that is absent,
\* undecodable or of another datatype.
InitOrgs ==
    \E e \in {NoEntry, Undecodable, ForeignEntry} :
       InitWith(EmptyPublicState,
                [o \in Orgs |-> IF o = "Org2"
                                THEN [EmptyOrgState EXCEPT ![NamespacesName][PrivateName("mycc", 1)] = e]
                                ELSE EmptyOrgState])

NextOrgs ==
    \/ \E org \in Orgs, cd \in Definitions(Seqs, FewParams) :
          Approve("mycc", org, cd, NilHash)
    \/ \E cd \in Definitions(Seqs, FewParams), orgs \in OrgLists(Orgs) :
          Commit("mycc", cd, orgs)

SpecOrgs == InitOrgs /\ [][NextOrgs]_vars

\* One namespace and one organization, with parameters that differ from P0 in
\* each single field.
NextParams ==
    \/ \E cd \in Definitions(Seqs, AllParams) :
          Approve("mycc", "Org1", cd, NilHash)
    \/ \E cd \in Definitions(Seqs, AllParams), orgs \in OrgLists({"Org1"}) :
          Commit("mycc", cd, orgs)

SpecParams == Init /\ [][NextParams]_vars

\* One namespace, with approvals that carry no hash or one of two hashes.
NextPackages ==
    \/ \E org \in Orgs, cd \in Definitions(Seqs, FewParams), hash \in Hashes :
          Approve("mycc", org, cd, hash)
    \/ \E cd \in Definitions(Seqs, FewParams), orgs \in OrgLists({"Org1"}) :
          Commit("mycc", cd, orgs)

SpecPackages == Init /\ [][NextPackages]_vars

(***************************************************************************)
(* The queries, as actions: they record what they return and write nothing *)
(***************************************************************************)
Query(name) ==
    LET r == QueryChaincodeDefinition(name, publicState)
    IN  /\ nops < MaxOps
        /\ nops' = nops + 1
        /\ last' = [NoCall EXCEPT !.op = "query", !.name = name,
                                  !.definition = r.definition, !.err = r.err]
        /\ UNCHANGED <<publicState, orgStates, commits, approvals, committed, install, pending>>

IfDefined(name) ==
    LET r == ChaincodeDefinitionIfDefined(name, publicState)
    IN  /\ nops < MaxOps
        /\ nops' = nops + 1
        /\ last' = [NoCall EXCEPT !.op = "ifdefined", !.name = name, !.defined = r.defined,
                                  !.definition = r.definition, !.err = r.err]
        /\ UNCHANGED <<publicState, orgStates, commits, approvals, committed, install, pending>>

QueryNamespaces ==
    LET r == QueryNamespaceDefinitions(publicState)
    IN  /\ nops < MaxOps
        /\ nops' = nops + 1
        /\ last' = [NoCall EXCEPT !.op = "namespaces", !.namespaces = r.namespaces,
                                  !.err = r.err]
        /\ UNCHANGED <<publicState, orgStates, commits, approvals, committed, install, pending>>

\* Two namespaces and the lifecycle's own; the public state holds from the start,
\* under "other", nothing, an entry of another datatype or one that does not
\* decode, and under the lifecycle's name nothing or an entry of another datatype.
InitQueries ==
    \E e \in {NoEntry, ForeignEntry, Undecodable}, l \in {NoEntry, ForeignEntry} :
       InitWith([ns \in {NamespacesName} |->
                    [k \in QueryNames |-> IF k = "other" THEN e
                                          ELSE IF k = LifecycleNamespace THEN l
                                          ELSE NoEntry]],
                [o \in Orgs |-> EmptyOrgState])

NextQueries ==
    \/ \E name \in Names, org \in Orgs, cd \in Definitions(SomeSeqs, {P0}), hash \in FewHashes :
          Approve(name, org, cd, hash)
    \/ \E name \in Names, cd \in Definitions(SomeSeqs, FewParams), orgs \in OrgLists({"Org1"}) :
          Commit(name, cd, orgs)
    \/ \E name \in QueryNames : Query(name)
    \/ \E name \in QueryNames : IfDefined(name)
    \/ QueryNamespaces

SpecQueries == InitQueries /\ [][NextQueries]_vars

(***************************************************************************)
(* InstallChaincode.  A package is a byte string; the parser, the store    *)
(* and the listener are the peer's collaborators.  install.trace lists the *)
(* collaborators the most recent call reached, in the order of the calls.  *)
(***************************************************************************)
Versions == {"1.0", "1.1"}
MalformedPackage == <<0>>
Packages == {MalformedPackage, <<1>>, <<2>>}

\* PackageParser.Parse: the parsed package, or an error for a malformed one
Parse(data) ==
    IF data[1] = 0
    THEN [pkg |-> [Metadata |-> <<>>], err |-> "malformed"]
    ELSE [pkg |-> [Metadata |-> [Label |-> data]], err |-> NoErr]

\* the content hash the store computes
HashOf(data) == [i \in 1..Len(data) |-> (7 * data[i] + 3) % 11]

\* ChaincodeStore.Save: persists the package and returns its hash, or fails
Save(name, version, ccInstallPkg, ok, saved) ==
    IF ok
    THEN [hash |-> [isNil |-> FALSE, bytes |-> HashOf(ccInstallPkg)],
          err |-> NoErr,
          saved |-> Append(saved, [name |-> name, version |-> version, package |-> ccInstallPkg])]
    ELSE [hash |-> [isNil |-> TRUE, bytes |-> <<>>], err |-> "save", saved |-> saved]

\* mutant: the package is saved before it is parsed
InstallSavingFirst(name, version, chaincodeInstallPackage, saveOk, inst) ==
    LET parsed == Parse(chaincodeInstallPackage)
        save == Save(name, version, chaincodeInstallPackage, saveOk, inst.saved)
    IN  IF save.err # NoErr
        THEN [hash |-> [isNil |-> TRUE, bytes |-> <<>>], err |-> "could not save",
              install |-> [inst EXCEPT !.trace = <<"Save">>]]
        ELSE IF parsed.err # NoErr
        THEN [hash |-> [isNil |-> TRUE, bytes |-> <<>>], err |-> "could not parse",
              install |-> [inst EXCEPT !.saved = save.saved, !.trace = <<"Save", "Parse">>]]
        ELSE IF inst.listener
        THEN [hash |-> save.hash, err |-> NoErr,
              install |-> [inst EXCEPT !.saved = save.saved,
                                       !.notified = Append(@, [md |-> parsed.pkg.Metadata,
                                                               hash |-> save.hash]),
                                       !.trace = <<"Save", "Parse", "HandleChaincodeInstalled">>]]
        ELSE [hash |-> save.hash, err |-> NoErr,
              install |-> [inst EXCEPT !.saved = save.saved, !.trace = <<"Save", "Parse">>]]

InstallChaincode(name, version, chaincodeInstallPackage, saveOk, inst) ==
    LET parsed == Parse(chaincodeInstallPackage)
        save == Save(name, version, chaincodeInstallPackage, saveOk, inst.saved)
    IN  IF parsed.err # NoErr
        THEN [hash |-> [isNil |-> TRUE, bytes |-> <<>>], err |-> "could not parse",
              install |-> [inst EXCEPT !.trace = <<"Parse">>]]
        ELSE IF save.err # NoErr
        THEN [hash |-> [isNil |-> TRUE, bytes |-> <<>>], err |-> "could not save",
              install |-> [inst EXCEPT !.trace = <<"Parse", "Save">>]]
        ELSE IF inst.listener
        THEN [hash |-> save.hash, err |-> NoErr,
              install |-> [inst EXCEPT !.saved = save.saved,
                                       !.notified = Append(@, [md |-> parsed.pkg.Metadata,
                                                               hash |-> save.hash]),
                                       !.trace = <<"Parse", "Save", "HandleChaincodeInstalled">>]]
        ELSE [hash |-> save.hash, err |-> NoErr,
              install |-> [inst EXCEPT !.saved = save.saved, !.trace = <<"Parse", "Save">>]]

\* saveOk: whether the store's Save succeeds in this call
Install(name, version, package, saveOk) ==
    LET r == InstallChaincode(name, version, package, saveOk, install)
    IN  /\ nops < MaxOps
        /\ nops' = nops + 1
        /\ install' = r.install
        /\ last' = [NoCall EXCEPT !.op = "install", !.name = name, !.version = version,
                                  !.package = package, !.hash = r.hash, !.err = r.err]
        /\ UNCHANGED <<publicState, orgStates, commits, approvals, committed, pending>>

\* A peer with or without an install listener.
InitInstall ==
    \E listener \in BOOLEAN :
       InitPeer(EmptyPublicState, [o \in Orgs |-> EmptyOrgState], listener)

NextInstall ==
    \E version \in Versions, package \in Packages, saveOk \in BOOLEAN :
       Install("mycc", version, package, saveOk)

SpecInstall == InitInstall /\ [][NextInstall]_vars

(***************************************************************************)
(* Snapshot execution.  A transaction is simulated against the committed   *)
(* state as its snapshot: the operation runs, nothing is written, and the  *)
(* transaction goes to pending with the public Sequence it read and the    *)
(* entries it would write.  Validation, later and one transaction at a     *)
(* time, applies the writes only if the Sequence read is still the         *)
(* committed one.  A transaction whose simulation failed has no writes.    *)
(***************************************************************************)
SimulateCommit(name, cd, orgs) ==
    LET r == CommitChaincodeDefinition(name, cd, publicState,
                                       [i \in 1..Len(orgs) |-> orgStates[orgs[i]]])
        read == DeserializeFieldAsInt64(NamespacesName, name, "Sequence", publicState).val
    IN  /\ nops < MaxOps
        /\ nops' = nops + 1
        /\ pending' = IF r.err = NoErr
                      THEN pending \cup {[op |-> "commit", name |-> name, org |-> "", cd |-> cd,
                                          read |-> read,
                                          writes |-> <<r.state[NamespacesName][name]>>]}
                      ELSE pending
        /\ last' = [NoCall EXCEPT !.op = "simulateCommit", !.name = name, !.cd = cd,
                                  !.orgs = orgs, !.agreement = r.agreement, !.err = r.err,
                                  !.read = read]
        /\ UNCHANGED <<publicState, orgStates, commits, approvals, committed, install>>

SimulateApprove(name, org, cd, hash) ==
    LET r == ApproveChaincodeDefinitionForOrg(name, cd, hash, publicState, orgStates[org])
        read == DeserializeFieldAsInt64(NamespacesName, name, "Sequence", publicState).val
        key == PrivateName(name, cd.Sequence)
    IN  /\ nops < MaxOps
        /\ nops' = nops + 1
        /\ pending' = IF r.err = NoErr
                      THEN pending \cup {[op |-> "approve", name |-> name, org |-> org, cd |-> cd,
                                          read |-> read,
                                          writes |-> <<r.state[NamespacesName][key],
                                                       r.state[ChaincodeSourcesName][key]>>]}
                      ELSE pending
        /\ last' = [NoCall EXCEPT !.op = "simulateApprove", !.name = name, !.org = org,
                                  !.cd = cd, !.hash = hash, !.err = r.err, !.read = read]
        /\ UNCHANGED <<publicState, orgStates, commits, approvals, committed, install>>

Validate(tx) ==
    LET current == DeserializeFieldAsInt64(NamespacesName, tx.name, "Sequence", publicState).val
        valid == tx.read = current
        key == PrivateName(tx.name, tx.cd.Sequence)
    IN  /\ pending' = pending \ {tx}
        /\ publicState' = IF valid /\ tx.op = "commit"
                          THEN [publicState EXCEPT ![NamespacesName][tx.name] = tx.writes[1]]
                          ELSE publicState
        /\ orgStates' = IF valid /\ tx.op = "approve"
                        THEN [orgStates EXCEPT ![tx.org][NamespacesName][key] = tx.writes[1],
                                               ![tx.org][ChaincodeSourcesName][key] = tx.writes[2]]
                        ELSE orgStates
        /\ commits' = IF valid /\ tx.op = "commit"
                      THEN [commits EXCEPT ![tx.name] = @ + 1] ELSE commits
        /\ committed' = IF valid /\ tx.op = "commit"
                        THEN [committed EXCEPT ![tx.name] = [isNil |-> FALSE, val |-> tx.cd]]
                        ELSE committed
        /\ approvals' = IF valid /\ tx.op = "approve"
                        THEN [approvals EXCEPT ![tx.org][key] = Append(@, Parameters(tx.cd))]
                        ELSE approvals
        /\ last' = [NoCall EXCEPT !.op = IF tx.op = "commit" THEN "validateCommit"
                                         ELSE "validateApprove",
                                  !.name = tx.name, !.org = tx.org, !.cd = tx.cd,
                                  !.read = tx.read,
                                  !.err = IF valid THEN NoErr ELSE "read conflict"]
        /\ UNCHANGED <<nops, install>>

NextSnapshots ==
    \/ \E cd \in Definitions(SomeSeqs, FewParams) : SimulateCommit("mycc", cd, <<"Org1">>)
    \/ \E org \in Orgs, cd \in Definitions(SomeSeqs, {P0}) :
          SimulateApprove("mycc", org, cd, NilHash)
    \/ \E tx \in pending : Validate(tx)

SpecSnapshots == Init /\ [][NextSnapshots]_vars

(***************************************************************************)
(* Reading the states                                                      *)
(***************************************************************************)
Entry(datatype, record) == [Datatype |-> datatype, Value |-> record]

\* the current sequence of a namespace, as the operations read it
PublicSequence(name) ==
    DeserializeFieldAsInt64(NamespacesName, name, "Sequence", publicState).val

\* the step just taken was a call of op (every call sets last)
Called(op) == last'.op = op

StatesOf(orgs) == [i \in 1..Len(orgs) |-> orgStates[orgs[i]]]

(***************************************************************************)
(* C1: in every state the public Sequence of every namespace equals the    *)
(* number of successful commits of that namespace (0 when none), and in    *)
(* every step it stays the same or grows by exactly 1, growing only in a   *)
(* successful CommitChaincodeDefinition of that namespace.                 *)
(***************************************************************************)
C1_SequenceCountsCommits ==
    /\ [](\A n \in Names : PublicSequence(n) = commits[n])
    /\ [][\A n \in Names :
            \/ PublicSequence(n)' = PublicSequence(n)
            \/ /\ PublicSequence(n)' = PublicSequence(n) + 1
               /\ Called("commit") /\ last'.name = n /\ last'.err = NoErr]_vars

C1_Witness ==
    /\ last.op = "approve" /\ last.err = NoErr
    /\ PublicSequence("mycc") = 2 /\ commits["mycc"] = 2
    /\ PublicSequence("other") = 0

(***************************************************************************)
(* C2: a commit whose Sequence is not currentSequence+1 returns an error   *)
(* and a nil agreement, and changes neither the public state nor any       *)
(* organization's state.                                                   *)
(***************************************************************************)
C2_BadSequenceCommitRejected ==
    [][(Called("commit") /\ last'.cd.Sequence # PublicSequence(last'.name) + 1)
          => /\ last'.err # NoErr
             /\ last'.agreement = NilAgreement
             /\ publicState' = publicState
             /\ orgStates' = orgStates]_vars

\* a skipped-ahead commit was rejected, after a commit of sequence 1 and an approval
C2_Witness ==
    /\ last.op = "commit" /\ last.err # NoErr
    /\ PublicSequence(last.name) = 0 /\ last.cd.Sequence = 2
    /\ PublicSequence("other") = 1
    /\ \E o \in Orgs : orgStates[o][NamespacesName][PrivateName(last.name, 1)] # NoEntry

C3_WitnessNoAgreement ==
    /\ last.op = "commit" /\ last.err = NoErr
    /\ Len(last.orgs) = 2
    /\ last.agreement.vals = <<FALSE, FALSE>>

Last(seq) == seq[Len(seq)]

(***************************************************************************)
(* C4: in a successful commit of sequence N, agreement[i] is true exactly  *)
(* when organization i holds at name#N a readable ChaincodeParameters      *)
(* entry equal to the proposed parameters; an absent, different,           *)
(* undecodable or wrongly typed entry gives false, and a commit fails only *)
(* by its sequence.  An organization whose latest accepted approval of     *)
(* (name, N) carried the proposed parameters gets true.                    *)
(***************************************************************************)
C4_AgreementIsStoredMatch ==
    /\ (last.op = "commit" /\ last.err = NoErr) =>
          LET key == PrivateName(last.name, last.cd.Sequence)
          IN  /\ Len(last.agreement.vals) = Len(last.orgs)
              /\ \A i \in 1..Len(last.orgs) :
                    /\ last.agreement.vals[i] =
                          (orgStates[last.orgs[i]][NamespacesName][key]
                               = Entry(ChaincodeParametersType, Parameters(last.cd)))
                    /\ (approvals[last.orgs[i]][key] # <<>>
                          /\ Last(approvals[last.orgs[i]][key]) = Parameters(last.cd))
                       => last.agreement.vals[i]
    /\ (last.op = "commit" /\ last.err # NoErr) =>
          last.cd.Sequence # PublicSequence(last.name) + 1

\* Org1 approved the proposed parameters, Org2's entry does not decode
C4_Witness ==
    /\ last.op = "commit" /\ last.err = NoErr
    /\ last.orgs = <<"Org1", "Org2">>
    /\ last.agreement.vals = <<TRUE, FALSE>>
    /\ orgStates["Org2"][NamespacesName][PrivateName(last.name, last.cd.Sequence)] = Undecodable

\* Org2's entry is of another datatype
C4_WitnessForeign ==
    /\ last.op = "commit" /\ last.err = NoErr
    /\ last.orgs = <<"Org2">>
    /\ last.agreement.vals = <<FALSE>>
    /\ orgStates["Org2"][NamespacesName][PrivateName(last.name, last.cd.Sequence)] = ForeignEntry

\* Org1 approved the sequence with other parameters
C4_WitnessOtherParameters ==
    /\ last.op = "commit" /\ last.err = NoErr
    /\ last.orgs = <<"Org1">>
    /\ last.agreement.vals = <<FALSE>>
    /\ approvals["Org1"][PrivateName(last.name, last.cd.Sequence)] # <<>>

(***************************************************************************)
(* C5: an approval of the current public sequence (> 0) succeeds exactly   *)
(* when the proposed parameters equal the committed ones in all of code    *)
(* version, endorsement plugin, init-required flag, validation plugin,     *)
(* validation policy bytes and collection configuration; otherwise it is   *)
(* rejected and nothing is written to the organization's state.            *)
(***************************************************************************)
SameParameters(a, b) ==
    /\ a.EndorsementInfo.Version = b.EndorsementInfo.Version
    /\ a.EndorsementInfo.EndorsementPlugin = b.EndorsementInfo.EndorsementPlugin
    /\ a.EndorsementInfo.InitRequired = b.EndorsementInfo.InitRequired
    /\ a.ValidationInfo.ValidationPlugin = b.ValidationInfo.ValidationPlugin
    /\ a.ValidationInfo.ValidationParameter = b.ValidationInfo.ValidationParameter
    /\ a.Collections = b.Collections

C5_CurrentSequenceApprovalMatchesExactly ==
    [][(/\ Called("approve")
        /\ last'.cd.Sequence = PublicSequence(last'.name)
        /\ PublicSequence(last'.name) > 0)
          => /\ last'.err = NoErr
                  <=> SameParameters(last'.cd, publicState[NamespacesName][last'.name].Value)
             /\ last'.err # NoErr => orgStates' = orgStates]_vars

(***************************************************************************)
(* C6: an approval whose sequence is greater than currentSequence+1 or     *)
(* smaller than currentSequence fails, whatever the parameters and the     *)
(* package hash, and changes neither scope of any organization nor the     *)
(* public state.                                                           *)
(***************************************************************************)
C6_OutOfRangeApprovalRejected ==
    [][(/\ Called("approve")
        /\ \/ last'.cd.Sequence > PublicSequence(last'.name) + 1
           \/ last'.cd.Sequence < PublicSequence(last'.name))
          => /\ last'.err # NoErr
             /\ orgStates' = orgStates
             /\ publicState' = publicState]_vars

\* an approval two ahead of an undefined namespace's sequence was rejected
C6_Witness ==
    /\ last.op = "approve" /\ last.err # NoErr
    /\ last.cd.Sequence = 2 /\ PublicSequence(last.name) = 0
    /\ ~last.hash.isNil

\* an approval of a superseded sequence was rejected
C6_WitnessSuperseded ==
    /\ last.op = "approve" /\ last.err # NoErr
    /\ last.cd.Sequence = 1 /\ PublicSequence(last.name) = 2

(***************************************************************************)
(* C7: an approval of sequence 0 for a namespace with no committed         *)
(* definition fails and changes no state, and no organization ever holds   *)
(* an entry, in either scope, at a key name#0.                             *)
(***************************************************************************)
C7_SequenceZeroNeverApproved ==
    /\ [](\A o \in Orgs, n \in Names :
             /\ orgStates[o][NamespacesName][PrivateName(n, 0)] = NoEntry
             /\ orgStates[o][ChaincodeSourcesName][PrivateName(n, 0)] = NoEntry)
    /\ [][(Called("approve") /\ last'.cd.Sequence = 0 /\ PublicSequence(last'.name) = 0)
            => /\ last'.err # NoErr
               /\ orgStates' = orgStates
               /\ publicState' = publicState]_vars

C7_Witness ==
    /\ last.op = "approve" /\ last.err # NoErr
    /\ last.cd.Sequence = 0 /\ PublicSequence(last.name) = 0
    /\ ~last.hash.isNil

(***************************************************************************)
(* C8: an approval of sequence currentSequence+1 is accepted whatever the  *)
(* parameters, the committed definition and the other organizations'       *)
(* approvals are, and stores the proposed parameters at name#sequence in   *)
(* the organization's namespaces scope; so too for sequence 1 of an        *)
(* undefined namespace.                                                    *)
(***************************************************************************)
C8_NextSequenceApprovalAccepted ==
    [][(Called("approve") /\ last'.cd.Sequence = PublicSequence(last'.name) + 1)
          => /\ last'.err = NoErr
             /\ orgStates'[last'.org][NamespacesName][PrivateName(last'.name, last'.cd.Sequence)]
                   = Entry(ChaincodeParametersType, Parameters(last'.cd))]_vars

\* Org2 approved sequence 2 with parameters that differ from the committed
\* definition of sequence 1
C8_Witness ==
    /\ last.op = "approve" /\ last.err = NoErr /\ last.org = "Org2"
    /\ last.cd.Sequence = 2 /\ PublicSequence(last.name) = 1
    /\ Parameters(publicState[NamespacesName][last.name].Value) # Parameters(last.cd)

\* Org2 approved sequence 1 of an undefined namespace with other parameters than Org1
C8_WitnessUndefined ==
    /\ last.op = "approve" /\ last.err = NoErr /\ last.org = "Org2"
    /\ last.cd.Sequence = 1 /\ PublicSequence(last.name) = 0
    /\ approvals["Org1"][PrivateName(last.name, 1)] # <<>>
    /\ Last(approvals["Org1"][PrivateName(last.name, 1)]) # Parameters(last.cd)

(***************************************************************************)
(* C9: the entry of an organization at name#sequence is, in every field,   *)
(* the parameters of its latest accepted approval of (name, sequence); a   *)
(* successful commit of that sequence gives the organization agreement     *)
(* true exactly when it proposes those parameters; and an accepted         *)
(* approval that repeats the latest parameters leaves the namespaces scope *)
(* as it was.                                                              *)
(***************************************************************************)
C9_ReapprovalOverwrites ==
    /\ [](\A o \in Orgs, k \in PrivateKeys :
             approvals[o][k] # <<>> =>
                orgStates[o][NamespacesName][k]
                    = Entry(ChaincodeParametersType, Last(approvals[o][k])))
    /\ []((last.op = "commit" /\ last.err = NoErr) =>
             \A i \in 1..Len(last.orgs) :
                LET a == approvals[last.orgs[i]][PrivateName(last.name, last.cd.Sequence)]
                IN  last.agreement.vals[i] = (a # <<>> /\ Last(a) = Parameters(last.cd)))
    /\ [][(/\ Called("approve") /\ last'.err = NoErr
           /\ LET a == approvals[last'.org][PrivateName(last'.name, last'.cd.Sequence)]
              IN  a # <<>> /\ Last(a) = Parameters(last'.cd))
            => orgStates'[last'.org][NamespacesName] = orgStates[last'.org][NamespacesName]]_vars

\* Org1 approved P and then P' for the same key; the commit proposing P' found it agreeing
C9_Witness ==
    /\ last.op = "commit" /\ last.err = NoErr /\ last.orgs = <<"Org1">>
    /\ last.agreement.vals = <<TRUE>>
    /\ LET a == approvals["Org1"][PrivateName(last.name, last.cd.Sequence)]
       IN  Len(a) = 2 /\ a[1] # a[2]

\* ... and the commit proposing P found it disagreeing
C9_WitnessOld ==
    /\ last.op = "commit" /\ last.err = NoErr /\ last.orgs = <<"Org1">>
    /\ last.agreement.vals = <<FALSE>>
    /\ LET a == approvals["Org1"][PrivateName(last.name, last.cd.Sequence)]
       IN  Len(a) = 2 /\ a[1] # a[2] /\ a[1] = Parameters(last.cd)

(***************************************************************************)
(* C10: an accepted approval with a package hash h stores h at             *)
(* name#sequence in the organization's chaincode-sources scope; one with   *)
(* no hash leaves that entry as it was (a hash stays, an absent entry      *)
(* stays absent); both overwrite the parameters entry, and neither changes *)
(* an entry at another key or another organization's state.                *)
(***************************************************************************)
C10_PackageHashFrame ==
    [][(Called("approve") /\ last'.err = NoErr)
          => LET org == last'.org
                 key == PrivateName(last'.name, last'.cd.Sequence)
             IN  /\ orgStates'[org][ChaincodeSourcesName][key] =
                       IF last'.hash.isNil
                       THEN orgStates[org][ChaincodeSourcesName][key]
                       ELSE Entry(ChaincodeLocalPackageType, [Hash |-> last'.hash.bytes])
                 /\ orgStates'[org][NamespacesName][key]
                       = Entry(ChaincodeParametersType, Parameters(last'.cd))
                 /\ \A k \in PrivateKeys \ {key} :
                       /\ orgStates'[org][NamespacesName][k] = orgStates[org][NamespacesName][k]
                       /\ orgStates'[org][ChaincodeSourcesName][k]
                             = orgStates[org][ChaincodeSourcesName][k]
                 /\ \A o \in Orgs \ {org} : orgStates'[o] = orgStates[o]]_vars

\* an approval without a hash replaced the parameters and kept the earlier hash
C10_Witness ==
    /\ last.op = "approve" /\ last.err = NoErr /\ last.hash.isNil
    /\ LET key == PrivateName(last.name, last.cd.Sequence)
           a == approvals[last.org][key]
       IN  /\ Len(a) = 2 /\ a[1] # a[2]
           /\ orgStates[last.org][ChaincodeSourcesName][key]
                 = Entry(ChaincodeLocalPackageType, [Hash |-> Hash1.bytes])

\* Org1 approved a key a second time, with a hash; Org2's hash at that key stayed
C10_WitnessReplaced ==
    /\ last.op = "approve" /\ last.err = NoErr /\ last.hash = Hash2 /\ last.org = "Org1"
    /\ LET key == PrivateName(last.name, last.cd.Sequence)
       IN  /\ Len(approvals["Org1"][key]) = 2
           /\ orgStates["Org1"][ChaincodeSourcesName][key]
                 = Entry(ChaincodeLocalPackageType, [Hash |-> Hash2.bytes])
           /\ orgStates["Org2"][ChaincodeSourcesName][key]
                 = Entry(ChaincodeLocalPackageType, [Hash |-> Hash1.bytes])

\* an approval without a hash left the absent package entry absent
C10_WitnessAbsent ==
    /\ last.op = "approve" /\ last.err = NoErr /\ last.hash.isNil
    /\ orgStates[last.org][ChaincodeSourcesName][PrivateName(last.name, last.cd.Sequence)]
          = NoEntry

(***************************************************************************)
(* C11: from a successful commit of definition D under a name until the    *)
(* next successful commit under that name, QueryChaincodeDefinition of the *)
(* name returns D with no error and ChaincodeDefinitionIfDefined returns   *)
(* (true, D, no error), whatever approvals, rejected commits and queries   *)
(* come in between and whatever the commit's agreement was.                *)
(***************************************************************************)
C11_QueryReturnsCommitted ==
    /\ \A n \in Names : ~committed[n].isNil =>
          /\ QueryChaincodeDefinition(n, publicState)
                = [definition |-> committed[n], err |-> NoErr]
          /\ ChaincodeDefinitionIfDefined(n, publicState)
                = [defined |-> TRUE, definition |-> committed[n], err |-> NoErr]
    /\ (last.op \in {"query", "ifdefined"} /\ last.name \in Names
          /\ ~committed[last.name].isNil)
         => /\ last.err = NoErr
            /\ last.definition = committed[last.name]
            /\ last.op = "ifdefined" => last.defined

\* the query after a commit that Org1 did not agree with and a later approval
C11_Witness ==
    /\ last.op = "query" /\ last.err = NoErr
    /\ last.definition = [isNil |-> FALSE, val |-> ChaincodeDefinition(1, PVersion)]
    /\ \E o \in Orgs : approvals[o][PrivateName(last.name, 2)] # <<>>

(***************************************************************************)
(* C12: for a namespace with no public definition, approved by some        *)
(* organization or not, ChaincodeDefinitionIfDefined returns (false, nil)  *)
(* and no error while QueryChaincodeDefinition returns an error and nil; a *)
(* namespace never committed and not defined from the start is such a      *)
(* namespace; for the lifecycle's own namespace ChaincodeDefinitionIfDefined*)
(* returns defined = true with no error in every state, whatever is stored *)
(* under that name.                                                        *)
(***************************************************************************)
C12_UndefinedNamespace ==
    /\ \A n \in Names : publicState[NamespacesName][n] = NoEntry =>
          /\ ChaincodeDefinitionIfDefined(n, publicState)
                = [defined |-> FALSE, definition |-> NilDefinition, err |-> NoErr]
          /\ QueryChaincodeDefinition(n, publicState).err # NoErr
          /\ QueryChaincodeDefinition(n, publicState).definition = NilDefinition
    /\ commits["mycc"] = 0 => publicState[NamespacesName]["mycc"] = NoEntry
    /\ LET r == ChaincodeDefinitionIfDefined(LifecycleNamespace, publicState)
       IN  r.defined /\ r.err = NoErr /\ ~r.definition.isNil
    /\ (last.op = "ifdefined" /\ last.name = LifecycleNamespace)
          => last.defined /\ last.err = NoErr
    /\ (last.op = "ifdefined" /\ last.name \in Names /\ committed[last.name].isNil
           /\ publicState[NamespacesName][last.name] = NoEntry)
          => ~last.defined /\ last.err = NoErr /\ last.definition.isNil
    /\ (last.op = "query" /\ last.name \in Names /\ committed[last.name].isNil
           /\ publicState[NamespacesName][last.name] = NoEntry)
          => last.err # NoErr /\ last.definition.isNil

\* the lookup of a namespace that two organizations approved and nobody committed
C12_Witness ==
    /\ last.op = "ifdefined" /\ last.name = "mycc" /\ ~last.defined /\ last.err = NoErr
    /\ \A o \in Orgs : approvals[o][PrivateName("mycc", 1)] # <<>>

\* the lookup of the lifecycle's namespace over a state that holds another datatype there
C12_WitnessLifecycle ==
    /\ last.op = "ifdefined" /\ last.name = LifecycleNamespace /\ last.defined
    /\ publicState[NamespacesName][LifecycleNamespace] = ForeignEntry

\* the query of a namespace that was approved and never committed
C12_WitnessQuery ==
    /\ last.op = "query" /\ last.name = "mycc" /\ last.err # NoErr
    /\ approvals["Org1"][PrivateName("mycc", 1)] # <<>>

(***************************************************************************)
(* C13: when all public metadata decodes, QueryNamespaceDefinitions        *)
(* returns no error and a map with exactly one entry per name that has     *)
(* public metadata, a committed namespace being among them and one that    *)
(* was only approved not; ChaincodeDefinition maps to Chaincode and any    *)
(* other datatype to itself.  It fails only when some metadata does not    *)
(* decode.                                                                 *)
(***************************************************************************)
C13_NamespacesListed ==
    LET r == QueryNamespaceDefinitions(publicState)
        stored == publicState[NamespacesName]
        decodes == \A k \in QueryNames : stored[k] # Undecodable
    IN  /\ (r.err = NoErr) = decodes
        /\ decodes =>
              /\ ~r.namespaces.isNil
              /\ DOMAIN r.namespaces.vals = {k \in QueryNames : stored[k] # NoEntry}
              /\ \A k \in DOMAIN r.namespaces.vals :
                    r.namespaces.vals[k] =
                       IF stored[k].Datatype = ChaincodeDefinitionType
                       THEN FriendlyChaincodeDefinitionType
                       ELSE stored[k].Datatype
              /\ \A n \in Names : ~committed[n].isNil => n \in DOMAIN r.namespaces.vals
              /\ ("mycc" \in DOMAIN r.namespaces.vals) = (commits["mycc"] > 0)
        /\ last.op = "namespaces" => (last.err = r.err /\ last.namespaces = r.namespaces)

\* a listing with a committed chaincode, a namespace of another datatype and,
\* left out, a namespace that was only approved
C13_Witness ==
    /\ last.op = "namespaces" /\ last.err = NoErr
    /\ DOMAIN last.namespaces.vals = {"other"}
    /\ last.namespaces.vals["other"] = ForeignType
    /\ approvals["Org1"][PrivateName("mycc", 1)] # <<>>

C13_WitnessChaincode ==
    /\ last.op = "namespaces" /\ last.err = NoErr
    /\ DOMAIN last.namespaces.vals = {"mycc", "other"}
    /\ last.namespaces.vals["mycc"] = FriendlyChaincodeDefinitionType
    /\ last.namespaces.vals["other"] = ForeignType

(***************************************************************************)
(* C16: when the public metadata of a name carries a datatype other than   *)
(* ChaincodeDefinition, ChaincodeDefinitionIfDefined returns an error with *)
(* defined = false and no definition, and QueryChaincodeDefinition returns *)
(* an error and no definition.                                             *)
(***************************************************************************)
C16_WrongTypeIsError ==
    /\ \A n \in Names :
          (publicState[NamespacesName][n] \notin {NoEntry, Undecodable}
             /\ publicState[NamespacesName][n].Datatype # ChaincodeDefinitionType)
          => /\ ChaincodeDefinitionIfDefined(n, publicState).err # NoErr
             /\ ~ChaincodeDefinitionIfDefined(n, publicState).defined
             /\ ChaincodeDefinitionIfDefined(n, publicState).definition.isNil
             /\ QueryChaincodeDefinition(n, publicState).err # NoErr
             /\ QueryChaincodeDefinition(n, publicState).definition.isNil
    /\ (last.op \in {"query", "ifdefined"} /\ last.name \in Names
           /\ publicState[NamespacesName][last.name] = ForeignEntry)
          => last.err # NoErr /\ ~last.defined /\ last.definition.isNil

C16_Witness ==
    /\ last.op = "ifdefined" /\ last.name = "other" /\ last.err # NoErr
    /\ publicState[NamespacesName]["other"] = ForeignEntry
    /\ commits["mycc"] = 1

C16_WitnessQuery ==
    /\ last.op = "query" /\ last.name = "other" /\ last.err # NoErr
    /\ publicState[NamespacesName]["other"] = ForeignEntry

(***************************************************************************)
(* C14: InstallChaincode calls Parse, then Save, then the listener: a      *)
(* package that does not parse is neither saved nor notified; one whose    *)
(* save fails is not notified; a successful install saves the package,     *)
(* returns the store's hash and, with a listener registered, notifies it   *)
(* exactly once, within the call, with the parsed metadata and that hash;  *)
(* with no listener it succeeds all the same and notifies nobody.          *)
(***************************************************************************)
C14_InstallOrder ==
    [][Called("install") =>
         LET parsed == Parse(last'.package)
             entry == [name |-> last'.name, version |-> last'.version,
                       package |-> last'.package]
         IN  /\ install'.listener = install.listener
             /\ \E n \in 1..3 :
                   install'.trace = SubSeq(<<"Parse", "Save", "HandleChaincodeInstalled">>, 1, n)
             /\ parsed.err # NoErr =>
                   /\ last'.err # NoErr /\ last'.hash.isNil
                   /\ install'.trace = <<"Parse">>
                   /\ install'.saved = install.saved
                   /\ install'.notified = install.notified
             /\ (parsed.err = NoErr /\ last'.err # NoErr) =>
                   /\ last'.hash.isNil
                   /\ install'.trace = <<"Parse", "Save">>
                   /\ install'.saved = install.saved
                   /\ install'.notified = install.notified
             /\ last'.err = NoErr =>
                   /\ parsed.err = NoErr
                   /\ install'.saved = Append(install.saved, entry)
                   /\ last'.hash = [isNil |-> FALSE, bytes |-> HashOf(last'.package)]
                   /\ install'.notified =
                         IF install.listener
                         THEN Append(install.notified,
                                     [md |-> parsed.pkg.Metadata, hash |-> last'.hash])
                         ELSE install.notified
                   /\ install'.trace =
                         IF install.listener
                         THEN <<"Parse", "Save", "HandleChaincodeInstalled">>
                         ELSE <<"Parse", "Save">>]_vars

\* a listener notified of a second successful install, after a failed one
C14_Witness ==
    /\ last.op = "install" /\ last.err = NoErr /\ install.listener
    /\ Len(install.notified) = 2 /\ Len(install.saved) = 2 /\ nops = 3

\* a malformed package was rejected, with a listener registered
C14_WitnessMalformed ==
    /\ last.op = "install" /\ last.package = MalformedPackage /\ last.err # NoErr
    /\ install.listener /\ install.notified = <<>> /\ install.saved = <<>>

\* an install without a listener succeeded
C14_WitnessNoListener ==
    /\ last.op = "install" /\ last.err = NoErr /\ ~install.listener
    /\ ~last.hash.isNil /\ install.notified = <<>>

\* a save failed
C14_WitnessSaveFailed ==
    /\ last.op = "install" /\ last.err # NoErr /\ install.trace = <<"Parse", "Save">>
    /\ install.listener

(***************************************************************************)
(* C15: once sequence N of a namespace is committed with definition D,     *)
(* every approval of (namespace, N) accepted afterwards stores parameters  *)
(* equal to D's in every field, and an organization whose entry at name#N  *)
(* matches D's parameters keeps a matching entry for as long as D is the   *)
(* committed definition.                                                   *)
(***************************************************************************)
Agrees(o, n) ==
    LET r == IsSerialized(NamespacesName, PrivateName(n, committed[n].val.Sequence),
                          ChaincodeParametersType, Parameters(committed[n].val), orgStates[o])
    IN  r.err = NoErr /\ r.match

C15_AgreementWithCommittedIsStable ==
    [][\A n \in Names : (~committed[n].isNil /\ committed'[n] = committed[n]) =>
          /\ (Called("approve") /\ last'.err = NoErr /\ last'.name = n
                 /\ last'.cd.Sequence = committed[n].val.Sequence)
               => orgStates'[last'.org][NamespacesName][PrivateName(n, last'.cd.Sequence)]
                     = Entry(ChaincodeParametersType, Parameters(committed[n].val))
          /\ \A o \in Orgs : Agrees(o, n) => Agrees(o, n)']_vars

C17_WitnessRejected ==
    /\ last.op = "approve" /\ last.err # NoErr /\ last.cd.Sequence = 1
    /\ PublicSequence("mycc") = 2
    /\ orgStates[last.org][NamespacesName][PrivateName("mycc", 1)] = NoEntry

(***************************************************************************)
(* C18: an approval, accepted or rejected, changes neither the public      *)
(* state nor another organization's state and, in the approving            *)
(* organization's state, no key but name#requested; a commit changes no    *)
(* organization's state and no public entry but the one of its name; the   *)
(* three queries change no state.                                          *)
(***************************************************************************)
C18_WritesOnlyOwnScope ==
    [][/\ Called("approve") =>
            /\ publicState' = publicState
            /\ \A o \in Orgs \ {last'.org} : orgStates'[o] = orgStates[o]
            /\ \A ns \in {NamespacesName, ChaincodeSourcesName} :
                  \A k \in PrivateKeys \ {PrivateName(last'.name, last'.cd.Sequence)} :
                     orgStates'[last'.org][ns][k] = orgStates[last'.org][ns][k]
       /\ Called("commit") =>
            /\ orgStates' = orgStates
            /\ \A k \in QueryNames \ {last'.name} :
                  publicState'[NamespacesName][k] = publicState[NamespacesName][k]
       /\ (Called("query") \/ Called("ifdefined") \/ Called("namespaces")) =>
            /\ publicState' = publicState
            /\ orgStates' = orgStates]_vars

\* an accepted approval of sequence 2 by an organization that holds an approval of
\* sequence 1, the namespace being committed at sequence 1
C18_Witness ==
    /\ last.op = "approve" /\ last.err = NoErr
    /\ last.cd.Sequence = 2 /\ PublicSequence(last.name) = 1
    /\ orgStates[last.org][NamespacesName][PrivateName(last.name, 1)] # NoEntry

\* a commit under one name with the other name defined and an organization holding approvals
C18_WitnessCommit ==
    /\ last.op = "commit" /\ last.err = NoErr /\ last.name = "mycc"
    /\ publicState[NamespacesName]["other"] = ForeignEntry
    /\ \E o \in Orgs : orgStates[o][NamespacesName][PrivateName("mycc", 1)] # NoEntry

\* a query over a state with a definition and an approval
C18_WitnessQuery ==
    /\ last.op = "namespaces" /\ commits["mycc"] = 1
    /\ \E o \in Orgs : orgStates[o][NamespacesName][PrivateName("mycc", 1)] # NoEntry

(***************************************************************************)
(* C20: whether a commit is accepted depends only on the proposed sequence *)
(* and the prior public sequence, and the public state it writes only on   *)
(* the name, the proposed definition and the prior public state: the same  *)
(* call over any other list of org states, of any content, returns the     *)
(* same error and writes the same public state, and over the same list it  *)
(* returns the same agreement.                                             *)
(***************************************************************************)
OtherOrgStates ==
    LET known == {orgStates[o] : o \in Orgs} \cup {EmptyOrgState}
    IN  {<<>>} \cup {<<x>> : x \in known} \cup (known \X known)

C19_SnapshotCommitsSerialize ==
    /\ [](\A n \in Names : PublicSequence(n) = commits[n])
    /\ [][/\ Called("simulateCommit") =>
              /\ (last'.err = NoErr) = (last'.cd.Sequence = PublicSequence(last'.name) + 1)
              /\ last'.read = PublicSequence(last'.name)
              /\ publicState' = publicState /\ orgStates' = orgStates
          /\ Called("simulateApprove") =>
              /\ last'.read = PublicSequence(last'.name)
              /\ publicState' = publicState /\ orgStates' = orgStates
          /\ Called("validateCommit") =>
              LET n == last'.name
                  after == DeserializeFieldAsInt64(NamespacesName, n, "Sequence",
                                                   publicState').val
              IN  IF last'.err = NoErr
                  THEN /\ last'.read = PublicSequence(n)
                       /\ after = PublicSequence(n) + 1
                       /\ publicState'[NamespacesName][n] =
                              Entry(ChaincodeDefinitionType, last'.cd)
                       /\ \A tx \in pending' :
                              tx.name = n /\ tx.read = last'.read =>
                                  tx.read # after
                  ELSE /\ last'.read # PublicSequence(n)
                       /\ publicState' = publicState /\ orgStates' = orgStates
          /\ Called("validateApprove") =>
              LET n == last'.name
              IN  IF last'.err = NoErr
                  THEN /\ last'.read = PublicSequence(n)
                       /\ last'.cd.Sequence \in {PublicSequence(n), PublicSequence(n) + 1}
                       /\ last'.cd.Sequence # 0
                       /\ publicState' = publicState
                  ELSE /\ last'.read # PublicSequence(n)
                       /\ publicState' = publicState /\ orgStates' = orgStates]_vars

\* Two commits simulated against the same snapshot: the first was applied, the
\* second has just been turned down.
C19_Witness ==
    /\ last.op = "validateCommit" /\ last.err # NoErr
    /\ last.read = 0 /\ last.cd.Sequence = 1
    /\ PublicSequence(last.name) = 1
    /\ commits[last.name] = 1

\* An approval simulated before a commit was applied is turned down after it.
C19_WitnessApprove ==
    /\ last.op = "validateApprove" /\ last.err # NoErr
    /\ last.read = 0 /\ PublicSequence(last.name) = 1

\* An approval and a commit simulated against the same snapshot are both
\* applied, the approval first.
C19_WitnessBoth ==
    /\ last.op = "validateCommit" /\ last.err = NoErr
    /\ last.read = 0
    /\ orgStates["Org1"][NamespacesName][PrivateName(last.name, 1)] # NoEntry

====
